---- MODULE Spec2Model ----
(***************************************************************************)
(* The session codec `Twist` of src/codec/mod.rs: the translator between   *)
(* a byte stream and WebSocket envelopes (handshake frames, base frames).  *)
(*                                                                         *)
(* Twist::decode and Twist::encode are translated from mod.rs.  The frame  *)
(* codec (codec::base), the two handshake codecs (codec::server,           *)
(* codec::client) and the extension trait objects (ext) are other modules  *)
(* of the crate; they are modelled from their written description.         *)
(*                                                                         *)
(* Option<T> is a sequence: <<>> is None, <<x>> is Some(x).                *)
(***************************************************************************)
EXTENDS Integers, Sequences, FiniteSets, TLC

(***************************************************************************)
(* Bounds of the model.                                                    *)
(***************************************************************************)
\* longest application payload of the enumerated short frames
MaxPay == 2
\* longest per-message extension chain registered for the session
MaxExts == 2

None == <<>>
Some(x) == <<x>>

(***************************************************************************)
(* Bytes.                                                                  *)
(***************************************************************************)
RECURSIVE XorBits(_, _, _)
XorBits(a, b, n) ==
    IF n = 0 THEN 0
    ELSE ((a + b) % 2) + 2 * XorBits(a \div 2, b \div 2, n - 1)

\* u8 ^ u8
Xor(a, b) == IF a = 0 THEN b ELSE IF b = 0 THEN a ELSE XorBits(a, b, 8)

\* bit `m` (a power of two) of x is set
Bit(x, m) == (x \div m) % 2 = 1

\* x | m for a single bit m
SetBit(x, m) == IF Bit(x, m) THEN x ELSE x + m

\* big-endian encoding of v on n bytes
RECURSIVE BigEndian(_, _)
BigEndian(v, n) ==
    IF n = 0 THEN <<>> ELSE Append(BigEndian(v \div 256, n - 1), v % 256)

\* value of a big-endian byte string
RECURSIVE FromBigEndian(_)
FromBigEndian(s) ==
    IF s = <<>> THEN 0
    ELSE 256 * FromBigEndian(SubSeq(s, 1, Len(s) - 1)) + s[Len(s)]

\* payload[i] ^ mask_key[i mod 4]
ApplyMask(key, data) ==
    [i \in 1..Len(data) |-> Xor(data[i], key[((i - 1) % 4) + 1])]

Drop(s, n) == SubSeq(s, n + 1, Len(s))
Take(s, n) == SubSeq(s, 1, n)

(***************************************************************************)
(* String::from_utf8: well-formed UTF-8 (RFC 3629: no overlong forms, no   *)
(* surrogates, nothing above U+10FFFF).                                    *)
(***************************************************************************)
IsCont(b) == b >= 128 /\ b <= 191

\* bytes of the character a lead byte opens; 0 for a byte that opens none
Utf8Width(b) ==
    IF b < 128 THEN 1
    ELSE IF b >= 194 /\ b <= 223 THEN 2
    ELSE IF b >= 224 /\ b <= 239 THEN 3
    ELSE IF b >= 240 /\ b <= 244 THEN 4
    ELSE 0

\* the character that starts at i is complete and well formed
Utf8CharAt(s, i) ==
    LET b == s[i]
        w == Utf8Width(b)
    IN  /\ w > 0
        /\ i + w - 1 <= Len(s)
        /\ \A j \in (i + 1)..(i + w - 1) : IsCont(s[j])
        /\ (b = 224 => s[i + 1] >= 160)
        /\ (b = 237 => s[i + 1] <= 159)
        /\ (b = 240 => s[i + 1] >= 144)
        /\ (b = 244 => s[i + 1] <= 143)

\* every byte opens a well-formed character or continues one
ValidUtf8(s) ==
    \A i \in 1..Len(s) :
        IF IsCont(s[i])
        THEN \E j \in (i - 3)..(i - 1) :
                /\ j >= 1
                /\ ~IsCont(s[j])
                /\ j + Utf8Width(s[j]) - 1 >= i
                /\ \A k \in (j + 1)..(i - 1) : IsCont(s[k])
        ELSE Utf8CharAt(s, i)

(***************************************************************************)
(* frame::base::OpCode and frame::base::Frame.                             *)
(***************************************************************************)
OpCodeOf(n) ==
    CASE n = 0 -> "Continue"
      [] n = 1 -> "Text"
      [] n = 2 -> "Binary"
      [] n = 8 -> "Close"
      [] n = 9 -> "Ping"
      [] n = 10 -> "Pong"
      [] OTHER -> "Reserved"

OpCodeNum(op) ==
    CASE op = "Continue" -> 0
      [] op = "Text" -> 1
      [] op = "Binary" -> 2
      [] op = "Close" -> 8
      [] op = "Ping" -> 9
      [] op = "Pong" -> 10
      [] OTHER -> 3

IsControl(op) == op \in {"Close", "Ping", "Pong"}

\* a base frame; rsv packs rsv1 (4), rsv2 (2), rsv3 (1)
Frame(fin, rsv, opcode, masked, key, app) ==
    [fin |-> fin, rsv |-> rsv, opcode |-> opcode, masked |-> masked,
     payload_length |-> Len(app), mask_key |-> key,
     extension_data |-> None, application_data |-> Some(app)]

rsv1(f) == Bit(f.rsv, 4)
rsv2(f) == Bit(f.rsv, 2)
rsv3(f) == Bit(f.rsv, 1)

(***************************************************************************)
(* codec::base::FrameCodec: the resumable decoder and the encoder of one   *)
(* base frame.  The decoder passes four checkpoints (fixed prefix,         *)
(* extended length, mask key, payload); a short buffer at a checkpoint     *)
(* returns None with nothing consumed and the fields parsed so far kept    *)
(* in the codec; the bytes of the frame are removed on full success.       *)
(***************************************************************************)
FrameCodec_default ==
    [state |-> "NONE", client |-> FALSE, reserved_bits |-> 0,
     fin |-> FALSE, rsv |-> 0, opcode |-> "Continue", masked |-> FALSE,
     length_code |-> 0, payload_length |-> 0, mask_key |-> <<>>,
     application_data |-> <<>>]

set_client(fc, c) == [fc EXCEPT !.client = c]
set_reserved_bits(fc, rb) == [fc EXCEPT !.reserved_bits = rb]

\* number of extended-length bytes announced by the 7-bit length
ExtLenBytes(code) == IF code = 126 THEN 2 ELSE IF code = 127 THEN 8 ELSE 0

\* every RSV bit of the frame is one an extension reserved
RsvCovered(rsv, rb) == \A m \in {1, 2, 4} : Bit(rsv, m) => Bit(rb, m)

FrameOf(fc) ==
    [fin |-> fc.fin, rsv |-> fc.rsv, opcode |-> fc.opcode, masked |-> fc.masked,
     payload_length |-> fc.payload_length, mask_key |-> fc.mask_key,
     extension_data |-> None, application_data |-> Some(fc.application_data)]

NoFrame == FrameOf(FrameCodec_default)

FcGo(fc) == [tag |-> "go", fc |-> fc, err |-> ""]
FcNone(fc) == [tag |-> "none", fc |-> fc, err |-> ""]
FcErr(fc, e) == [tag |-> "err", fc |-> fc, err |-> e]

\* checkpoint 1: the two-byte prefix and its validation
FcHeader(fc, b) ==
    IF fc.state # "NONE" THEN FcGo(fc)
    ELSE IF Len(b) < 2 THEN FcNone(fc)
    ELSE LET fin == b[1] >= 128
             rsv == (b[1] \div 16) % 8
             opcode == OpCodeOf(b[1] % 16)
             masked == b[2] >= 128
             code == b[2] % 128
         IN  IF ~RsvCovered(rsv, fc.reserved_bits)
                 THEN FcErr(fc, "protocol error: reserved bit set")
             ELSE IF opcode = "Reserved"
                 THEN FcErr(fc, "protocol error: reserved opcode")
             ELSE IF IsControl(opcode) /\ ~fin
                 THEN FcErr(fc, "protocol error: fragmented control frame")
             ELSE IF IsControl(opcode) /\ code > 125
                 THEN FcErr(fc, "protocol error: control frame too long")
             ELSE IF ~fc.client /\ ~masked
                 THEN FcErr(fc, "protocol error: unmasked client frame")
             ELSE IF fc.client /\ masked
                 THEN FcErr(fc, "protocol error: masked server frame")
             ELSE FcGo([fc EXCEPT !.state = "HEADER", !.fin = fin, !.rsv = rsv,
                                  !.opcode = opcode, !.masked = masked,
                                  !.length_code = code])

\* checkpoint 2: the extended length
FcLength(fc, b) ==
    IF fc.state # "HEADER" THEN FcGo(fc)
    ELSE LET n == ExtLenBytes(fc.length_code) IN
         IF Len(b) < 2 + n THEN FcNone(fc)
         ELSE IF n = 8 /\ b[3] >= 128
             THEN FcErr(fc, "protocol error: length high bit set")
         ELSE FcGo([fc EXCEPT !.state = "LENGTH",
                              !.payload_length =
                                  IF n = 0 THEN fc.length_code
                                  ELSE FromBigEndian(SubSeq(b, 3, 2 + n))])

\* checkpoint 3: the mask key
FcMask(fc, b) ==
    IF fc.state # "LENGTH" THEN FcGo(fc)
    ELSE LET at == 2 + ExtLenBytes(fc.length_code) IN
         IF ~fc.masked THEN FcGo([fc EXCEPT !.state = "MASK", !.mask_key = <<>>])
         ELSE IF Len(b) < at + 4 THEN FcNone(fc)
         ELSE FcGo([fc EXCEPT !.state = "MASK", !.mask_key = SubSeq(b, at + 1, at + 4)])

\* bytes of the frame before its payload
PayloadAt(fc) == 2 + ExtLenBytes(fc.length_code) + (IF fc.masked THEN 4 ELSE 0)

\* checkpoint 4: the payload, unmasked
FcPayload(fc, b) ==
    IF fc.state # "MASK" THEN FcGo(fc)
    ELSE LET at == PayloadAt(fc) IN
         IF Len(b) < at + fc.payload_length THEN FcNone(fc)
         ELSE LET raw == SubSeq(b, at + 1, at + fc.payload_length) IN
              FcGo([fc EXCEPT !.state = "FULL",
                              !.application_data =
                                  IF fc.masked THEN ApplyMask(fc.mask_key, raw)
                                  ELSE raw])

FcThen(prev, next) == IF prev.tag = "go" THEN next ELSE prev

\* FrameCodec::decode: [tag, fc, buf, frame, err]; tag is "frame" (Ok(Some)),
\* "none" (Ok(None)) or "err".  A codec that already holds a complete frame
\* has no checkpoint left and hands that frame out again.
FrameCodec_decode(fc, b) ==
    IF fc.state = "FULL"
    THEN [tag |-> "frame", fc |-> fc, buf |-> b, frame |-> FrameOf(fc), err |-> ""]
    ELSE LET r1 == FcHeader(fc, b)
             r2 == FcThen(r1, FcLength(r1.fc, b))
             r3 == FcThen(r2, FcMask(r2.fc, b))
             r4 == FcThen(r3, FcPayload(r3.fc, b))
         IN  IF r4.tag = "go"
             THEN [tag |-> "frame", fc |-> r4.fc,
                   buf |-> Drop(b, PayloadAt(r4.fc) + r4.fc.payload_length),
                   frame |-> FrameOf(r4.fc), err |-> ""]
             ELSE [tag |-> r4.tag, fc |-> r4.fc, buf |-> b, frame |-> NoFrame,
                   err |-> r4.err]

\* the smallest of the three length forms
LengthBytes(masked, n) ==
    LET m == IF masked THEN 128 ELSE 0 IN
    IF n < 126 THEN <<m + n>>
    ELSE IF n < 65536 THEN <<m + 126>> \o BigEndian(n, 2)
    ELSE <<m + 127>> \o BigEndian(n, 8)

AppData(f) == IF f.application_data = None THEN <<>> ELSE f.application_data[1]

\* FrameCodec::encode: a client masks with the key drawn for this frame,
\* a server writes the payload as it is
FrameCodec_encode(fc, f, key) ==
    LET data == AppData(f)
        first == (IF f.fin THEN 128 ELSE 0) + 16 * f.rsv + OpCodeNum(f.opcode)
    IN  IF fc.client
        THEN <<first>> \o LengthBytes(TRUE, Len(data)) \o key \o ApplyMask(key, data)
        ELSE <<first>> \o LengthBytes(FALSE, Len(data)) \o data

(***************************************************************************)
(* The opening handshake on the wire, reduced to what the session codec    *)
(* depends on: a start byte ('G' of a GET request, 'H' of an HTTP/1.1 101  *)
(* response), one byte carrying the Sec-WebSocket-Extensions value, and    *)
(* the CR LF CR LF that ends the headers.  The extensions value is a set   *)
(* of extension names, written as the digit '0' + mask.                    *)
(***************************************************************************)
CRLFCRLF == <<13, 10, 13, 10>>

ExtNames == {"xf", "chk"}
NameBit(name) == IF name = "xf" THEN 1 ELSE 2
HeaderMask(names) ==
    (IF "xf" \in names THEN 1 ELSE 0) + (IF "chk" \in names THEN 2 ELSE 0)
HeaderNames(mask) == {n \in ExtNames : Bit(mask, NameBit(n))}

RequestBytes(names) == <<71, 48 + HeaderMask(names)>> \o CRLFCRLF
ResponseBytes(names) == <<72, 48 + HeaderMask(names)>> \o CRLFCRLF

\* index of the first byte after the end of the headers, 0 if not there yet
HeadersEnd(b) ==
    LET ends == {i \in 4..Len(b) : SubSeq(b, i - 3, i) = CRLFCRLF}
    IN  IF ends = {} THEN 0 ELSE CHOOSE i \in ends : \A j \in ends : i <= j

\* server::handshake::Frame and client::handshake::Frame
Handshake(names) == [extensions |-> names, origin |-> "origin"]

HandshakeCodec_default == [scanned |-> 0]

\* the decoder of both handshake codecs: None until the headers end, then
\* the head is validated and removed from the buffer
HandshakeDecode(hc, b, start, what) ==
    LET e == HeadersEnd(b) IN
    IF e = 0
    THEN [tag |-> "none", hc |-> [hc EXCEPT !.scanned = Len(b)], buf |-> b,
          hand |-> Handshake({}), err |-> ""]
    ELSE IF e = 6 /\ b[1] = start /\ b[2] >= 48 /\ b[2] <= 51
    THEN [tag |-> "hand", hc |-> [hc EXCEPT !.scanned = e], buf |-> Drop(b, e),
          hand |-> Handshake(HeaderNames(b[2] - 48)), err |-> ""]
    ELSE [tag |-> "err", hc |-> hc, buf |-> b, hand |-> Handshake({}),
          err |-> what]

\* server::handshake::FrameCodec::decode: the client's request
ServerHandshake_decode(hc, b) == HandshakeDecode(hc, b, 71, "bad handshake")

\* client::handshake::FrameCodec::decode: the server's response
ClientHandshake_decode(hc, b) == HandshakeDecode(hc, b, 72, "handshake rejected")

\* server::handshake::FrameCodec::encode: the 101 response, with the
\* extensions response staked by set_ext_resp
ServerHandshake_encode(hand, ext_resp) ==
    [ok |-> TRUE, bytes |-> ResponseBytes(ext_resp), err |-> ""]

\* client::handshake::FrameCodec::encode: the GET request
ClientHandshake_encode(hand) ==
    [ok |-> TRUE, bytes |-> RequestBytes(hand.extensions), err |-> ""]

(***************************************************************************)
(* ext: the extension instances registered under the session's uuid.       *)
(* Two per-message extensions stand for the trait's implementations:       *)
(*   "xf"  reserves RSV1; decode rewrites the payload of a frame that has  *)
(*         RSV1 set (each byte loses its high bit); encode rewrites the    *)
(*         payload the same way and sets RSV1;                             *)
(*   "chk" reserves RSV2; decode and encode fail on a payload that starts  *)
(*         with byte 195.                                                  *)
(* An instance is enabled by init when the header names it.  The           *)
(* per-frame extension "strict" fails init when the header names both.     *)
(***************************************************************************)
Ext(kind) == [kind |-> kind, enabled |-> FALSE]

RsvOf(kind) == IF kind = "xf" THEN 4 ELSE 2

Ext_init(e, header) ==
    IF e.kind = "strict" /\ header = ExtNames
    THEN [ok |-> FALSE, ext |-> e, err |-> "extension error: conflicting offers"]
    ELSE [ok |-> TRUE, ext |-> [e EXCEPT !.enabled = e.kind \in header], err |-> ""]

Ext_reserve_rsv(e, rb) ==
    IF Bit(rb, RsvOf(e.kind))
    THEN [ok |-> FALSE, rb |-> rb, err |-> "extension error: rsv bit taken"]
    ELSE [ok |-> TRUE, rb |-> SetBit(rb, RsvOf(e.kind)), err |-> ""]

Ext_response(e) == Some(e.kind)

StartsBad(f) == AppData(f) # <<>> /\ AppData(f)[1] = 195

\* the payload with the high bit of each byte cleared
SevenBit(f) ==
    IF f.application_data = None THEN f
    ELSE [f EXCEPT !.application_data =
              Some([i \in 1..Len(AppData(f)) |-> AppData(f)[i] % 128])]

Ext_decode(e, f) ==
    IF e.kind = "xf"
    THEN [ok |-> TRUE, frame |-> IF rsv1(f) THEN SevenBit(f) ELSE f, err |-> ""]
    ELSE IF StartsBad(f)
    THEN [ok |-> FALSE, frame |-> f, err |-> "extension error: bad payload"]
    ELSE [ok |-> TRUE, frame |-> f, err |-> ""]

Ext_encode(e, f) ==
    IF e.kind = "xf"
    THEN [ok |-> TRUE, frame |-> [SevenBit(f) EXCEPT !.rsv = SetBit(f.rsv, 4)], err |-> ""]
    ELSE IF StartsBad(f)
    THEN [ok |-> FALSE, frame |-> f, err |-> "extension error: bad payload"]
    ELSE [ok |-> TRUE, frame |-> f, err |-> ""]

(***************************************************************************)
(* frame::WebSocket: the envelope, one optional slot per variant.          *)
(***************************************************************************)
WebSocket_default ==
    [base |-> None, client_handshake |-> None, server_handshake |-> None]

set_base(ws, f) == [ws EXCEPT !.base = Some(f)]
set_client_handshake(ws, h) == [ws EXCEPT !.client_handshake = Some(h)]
set_server_handshake(ws, h) == [ws EXCEPT !.server_handshake = Some(h)]

(***************************************************************************)
(* Twist.                                                                  *)
(***************************************************************************)
\* Twist::new
Twist_new(c) ==
    [client |-> c, shaken |-> FALSE, frame_codec |-> None,
     client_handshake_codec |-> None, server_handshake_codec |-> None,
     origin |-> None, reserved_bits |-> 0]

\* the results of decode: Ok(Some(envelope)), Ok(None), Err(e)
DecSome(self, b, ws) == [tag |-> "some", self |-> self, buf |-> b, env |-> Some(ws), err |-> ""]
DecNone(self, b) == [tag |-> "none", self |-> self, buf |-> b, env |-> None, err |-> ""]
DecErr(self, b, e) == [tag |-> "err", self |-> self, buf |-> b, env |-> None, err |-> e]

\* variant: the chain runs on every frame
ChainGate_always(f) == TRUE

\* the chain runs on final Text and Binary frames only
ChainGate(f) == f.fin /\ (f.opcode = "Text" \/ f.opcode = "Binary")

\* variant: the chain is visited from its last extension to its first
RECURSIVE ChainDecodeFrom_reversed(_, _, _)
ChainDecodeFrom_reversed(pm, i, f) ==
    IF i > Len(pm) THEN [ok |-> TRUE, frame |-> f, err |-> ""]
    ELSE IF ~pm[Len(pm) + 1 - i].enabled THEN ChainDecodeFrom_reversed(pm, i + 1, f)
    ELSE LET r == Ext_decode(pm[Len(pm) + 1 - i], f) IN
         IF r.ok THEN ChainDecodeFrom_reversed(pm, i + 1, r.frame) ELSE r

\* for ext in vec_pm_exts.iter_mut() { if ext.enabled() { ext.decode(frame)?; } }
RECURSIVE ChainDecodeFrom(_, _, _)
ChainDecodeFrom(pm, i, f) ==
    IF i > Len(pm) THEN [ok |-> TRUE, frame |-> f, err |-> ""]
    ELSE IF ~pm[i].enabled THEN ChainDecodeFrom(pm, i + 1, f)
    ELSE LET r == Ext_decode(pm[i], f) IN
         IF r.ok THEN ChainDecodeFrom(pm, i + 1, r.frame) ELSE r

\* Twist::ext_chain_decode
ext_chain_decode(pm, f) ==
    IF ChainGate(f) THEN ChainDecodeFrom(pm, 1, f)
    ELSE [ok |-> TRUE, frame |-> f, err |-> ""]

\* the frame codec of this call: the one in the slot, or a new one
SlotOr(slot, fresh) == IF slot = None THEN fresh ELSE slot[1]

\* variant: the decoder is told that every RSV bit is reserved
ConfigureDecoder_allBits(self, fc) ==
    set_reserved_bits(set_client(fc, self.client), 7)

\* fc.set_client(self.client); fc.set_reserved_bits(self.reserved_bits)
ConfigureDecoder(self, fc) ==
    set_reserved_bits(set_client(fc, self.client), self.reserved_bits)

\* variant: every text frame is validated, final or not
Utf8Gate_anyText(f) == f.opcode = "Text"

\* the text frames whose application data is validated
Utf8Gate(f) == f.opcode = "Text" /\ f.fin

\* variant: the data validated is the data read from the wire
Validated_wire(parsed, chained) == parsed

\* the frame whose application data is validated: the one the chain left
Validated(parsed, chained) == chained

\* variant: the codec is dropped when it asks for more bytes
BasePartial_dropped(self, fc) == [self EXCEPT !.frame_codec = None]

\* the session after the frame codec asked for more bytes
BasePartial(self, fc) == [self EXCEPT !.frame_codec = Some(fc)]

\* variant: an error puts the session back before the handshake
BaseFailed_reset(self, fc) ==
    [self EXCEPT !.frame_codec = Some(fc), !.shaken = FALSE]

\* the session after an error return of the base-frame branch
BaseFailed(self, fc) == [self EXCEPT !.frame_codec = Some(fc)]

\* the session after a base frame was emitted
BaseEmitted(self) == [self EXCEPT !.frame_codec = None]

\* Twist::decode, self.shaken
Twist_decode_base(self, pm, b) ==
    LET fc == ConfigureDecoder(self, SlotOr(self.frame_codec, FrameCodec_default))
        r == FrameCodec_decode(fc, b)
    IN  IF r.tag = "none" THEN DecNone(BasePartial(self, r.fc), r.buf)
        ELSE IF r.tag = "err" THEN DecErr(BaseFailed(self, r.fc), r.buf, r.err)
        ELSE LET c == ext_chain_decode(pm, r.frame) IN
             IF ~c.ok THEN DecErr(BaseFailed(self, r.fc), r.buf, c.err)
             ELSE IF /\ Utf8Gate(c.frame)
                     /\ Validated(r.frame, c.frame).application_data # None
                     /\ ~ValidUtf8(Validated(r.frame, c.frame).application_data[1])
                 THEN DecErr(BaseFailed(self, r.fc), r.buf, "invalid UTF-8 in text frame")
             ELSE DecSome(BaseEmitted(self), r.buf, set_base(WebSocket_default, c.frame))

\* variant: the handshake indicator is not set
ClientShaken_forgotten(self) == [self EXCEPT !.client_handshake_codec = None]

\* the session after the client handshake codec produced its frame
ClientShaken(self) ==
    [self EXCEPT !.shaken = TRUE, !.client_handshake_codec = None]

\* Twist::decode, !self.shaken && self.client
Twist_decode_client(self, b) ==
    LET hc == SlotOr(self.client_handshake_codec, HandshakeCodec_default)
        r == ClientHandshake_decode(hc, b)
        kept == [self EXCEPT !.client_handshake_codec = Some(r.hc)]
    IN  IF r.tag = "none" THEN DecNone(kept, r.buf)
        ELSE IF r.tag = "err" THEN DecErr(kept, r.buf, r.err)
        ELSE DecSome(ClientShaken(self), r.buf,
                     set_client_handshake(WebSocket_default, r.hand))

\* variant: the server sets the handshake indicator on decode, as the client does
ServerRequested_shaken(self, hand) ==
    [self EXCEPT !.origin = Some(hand.origin), !.server_handshake_codec = None,
                 !.shaken = TRUE]

\* the session after the server handshake codec produced the request
ServerRequested(self, hand) ==
    [self EXCEPT !.origin = Some(hand.origin), !.server_handshake_codec = None]

\* Twist::decode, !self.shaken && !self.client
Twist_decode_server(self, b) ==
    LET hc == SlotOr(self.server_handshake_codec, HandshakeCodec_default)
        r == ServerHandshake_decode(hc, b)
        kept == [self EXCEPT !.server_handshake_codec = Some(r.hc)]
    IN  IF r.tag = "none" THEN DecNone(kept, r.buf)
        ELSE IF r.tag = "err" THEN DecErr(kept, r.buf, r.err)
        ELSE DecSome(ServerRequested(self, r.hand), r.buf,
                     set_server_handshake(WebSocket_default, r.hand))

\* variant: no early return on an empty buffer
Twist_decode_noEarlyReturn(self, pm, b) ==
    IF self.shaken THEN Twist_decode_base(self, pm, b)
    ELSE IF self.client THEN Twist_decode_client(self, b)
    ELSE Twist_decode_server(self, b)

\* Twist::decode
Twist_decode(self, pm, b) ==
    IF Len(b) = 0 THEN DecNone(self, b)
    ELSE IF self.shaken THEN Twist_decode_base(self, pm, b)
    ELSE IF self.client THEN Twist_decode_client(self, b)
    ELSE Twist_decode_server(self, b)

\* the results of encode: Ok(()) and Err(e), with the state they leave
EncOk(self, pm, pf, out) ==
    [tag |-> "ok", self |-> self, pm |-> pm, pf |-> pf, out |-> out, err |-> ""]
EncErr(self, pm, pf, out, e) ==
    [tag |-> "err", self |-> self, pm |-> pm, pf |-> pf, out |-> out, err |-> e]

\* for ext in vec_pm_exts.iter_mut() { if ext.enabled() { ext.encode(&mut mut_base)?; } }
RECURSIVE ChainEncodeFrom(_, _, _)
ChainEncodeFrom(pm, i, f) ==
    IF i > Len(pm) THEN [ok |-> TRUE, frame |-> f, err |-> ""]
    ELSE IF ~pm[i].enabled THEN ChainEncodeFrom(pm, i + 1, f)
    ELSE LET r == Ext_encode(pm[i], f) IN
         IF r.ok THEN ChainEncodeFrom(pm, i + 1, r.frame) ELSE r

\* variant: the encoder is left with the role of a new codec
ConfigureEncoder_default(self, fc) == fc

\* the frame codec of an encode call: fc.set_client(self.client)
ConfigureEncoder(self, fc) == set_client(fc, self.client)

\* Twist::encode, self.shaken
Twist_encode_base(self, pm, pf, msg, out, key) ==
    IF msg.base = None
    THEN EncErr(self, pm, pf, out, "unable to extract base frame to encode")
    ELSE LET fc == ConfigureEncoder(self, FrameCodec_default)
             c == ChainEncodeFrom(pm, 1, msg.base[1])
         IN  IF ~c.ok THEN EncErr(self, pm, pf, out, c.err)
             ELSE EncOk(self, pm, pf, out \o FrameCodec_encode(fc, c.frame, key))

\* the negotiation loop over the per-message extensions: init every one,
\* and for an enabled one reserve its bit and collect its response
RECURSIVE NegotiateFrom(_, _, _, _, _)
NegotiateFrom(pm, i, header, rb, resp) ==
    IF i > Len(pm) THEN [ok |-> TRUE, pm |-> pm, rb |-> rb, resp |-> resp, err |-> ""]
    ELSE LET n == Ext_init(pm[i], header) IN
         IF ~n.ok THEN [ok |-> FALSE, pm |-> pm, rb |-> rb, resp |-> resp, err |-> n.err]
         ELSE LET pm1 == [pm EXCEPT ![i] = n.ext] IN
              IF ~n.ext.enabled THEN NegotiateFrom(pm1, i + 1, header, rb, resp)
              ELSE LET v == Ext_reserve_rsv(n.ext, rb) IN
                   IF ~v.ok
                   THEN [ok |-> FALSE, pm |-> pm1, rb |-> rb, resp |-> resp, err |-> v.err]
                   ELSE NegotiateFrom(pm1, i + 1, header, v.rb,
                            IF Ext_response(n.ext) = None THEN resp
                            ELSE resp \cup {Ext_response(n.ext)[1]})

\* for ext in vec_pf_exts.iter_mut() { ext.init(&ext_header)?; }
RECURSIVE PerFrameInitFrom(_, _, _)
PerFrameInitFrom(pf, i, header) ==
    IF i > Len(pf) THEN [ok |-> TRUE, pf |-> pf, err |-> ""]
    ELSE LET n == Ext_init(pf[i], header) IN
         IF ~n.ok THEN [ok |-> FALSE, pf |-> pf, err |-> n.err]
         ELSE PerFrameInitFrom([pf EXCEPT ![i] = n.ext], i + 1, header)

\* variant: the negotiation starts from no reserved bit
NegotiationStart_zero(self) == 0

\* let mut rb = self.reserved_bits
NegotiationStart(self) == self.reserved_bits

\* the session after the server handshake codec wrote the response
ServerShaken(self) == [self EXCEPT !.shaken = TRUE]

\* Twist::encode, !self.shaken, the envelope holds a server handshake
Twist_encode_server(self, pm, pf, msg, out) ==
    LET hand == msg.server_handshake[1]
        n == NegotiateFrom(pm, 1, hand.extensions, NegotiationStart(self), {})
    IN  IF ~n.ok THEN EncErr(self, n.pm, pf, out, n.err)
        ELSE LET reserved == [self EXCEPT !.reserved_bits = n.rb]
                 p == PerFrameInitFrom(pf, 1, hand.extensions)
             IN  IF ~p.ok THEN EncErr(reserved, n.pm, p.pf, out, p.err)
                 ELSE LET w == ServerHandshake_encode(hand, n.resp) IN
                      IF ~w.ok THEN EncErr(reserved, n.pm, p.pf, out, w.err)
                      ELSE EncOk(ServerShaken(reserved), n.pm, p.pf, out \o w.bytes)

\* the session after the client handshake codec wrote the request
ClientRequested(self) == self

\* Twist::encode, !self.shaken, the envelope holds a client handshake
Twist_encode_client(self, pm, pf, msg, out) ==
    LET w == ClientHandshake_encode(msg.client_handshake[1]) IN
    IF ~w.ok THEN EncErr(self, pm, pf, out, w.err)
    ELSE EncOk(ClientRequested(self), pm, pf, out \o w.bytes)

\* the branch of encode that takes the envelope
EncodeBranch(self, msg) ==
    IF self.shaken THEN "base"
    ELSE IF msg.server_handshake # None THEN "server_handshake"
    ELSE IF msg.client_handshake # None THEN "client_handshake"
    ELSE "none"

\* Twist::encode
Twist_encode(self, pm, pf, msg, out, key) ==
    LET br == EncodeBranch(self, msg) IN
    IF br = "base" THEN Twist_encode_base(self, pm, pf, msg, out, key)
    ELSE IF br = "server_handshake" THEN Twist_encode_server(self, pm, pf, msg, out)
    ELSE IF br = "client_handshake" THEN Twist_encode_client(self, pm, pf, msg, out)
    ELSE EncErr(self, pm, pf, out, "unable to extract handshake frame to encode")

(***************************************************************************)
(* The inputs of the model.                                                *)
(***************************************************************************)
\* the sequences over S of length at most n
RECURSIVE SeqsUpTo(_, _)
SeqsUpTo(S, n) ==
    IF n = 0 THEN {<<>>}
    ELSE LET shorter == SeqsUpTo(S, n - 1) IN
         shorter \cup {Append(q, x) : q \in {t \in shorter : Len(t) = n - 1}, x \in S}

\* payload bytes: 'A' and the lead byte of a two-byte character; the
\* payloads are the short ones over these bytes and the two bytes of U+00E9
PayBytes == {65, 195}
Payloads == SeqsUpTo(PayBytes, MaxPay) \cup {<<195, 169>>}

\* the payload of the 2-byte length form
Zeros(n) == [i \in 1..n |-> 0]

MaskKeys == {<<0, 0, 0, 1>>, <<128, 7, 0, 255>>}
WireKey == <<128, 7, 0, 255>>
OutBuf == <<255>>

DataOps == {"Continue", "Text", "Binary"}
ControlOps == {"Close", "Ping", "Pong"}

\* the wire form of a frame as a peer sends it, masked or not
WireFrame(fin, rsv, opcode, masked, app) ==
    FrameCodec_encode(set_client(FrameCodec_default, masked),
                      Frame(fin, rsv, opcode, masked, <<>>, app), WireKey)

\* the frames of a peer that masks as its role demands (m), and a few
\* frames masked the wrong way
WireFrames(m) ==
    {WireFrame(fin, rsv, op, m, app) :
        fin \in BOOLEAN, rsv \in {0, 4}, op \in {"Text", "Binary"}, app \in Payloads}
    \cup
    {WireFrame(fin, 0, op, m, <<65>>) :
        fin \in BOOLEAN, op \in {"Continue", "Reserved"} \cup ControlOps}
    \cup
    {WireFrame(TRUE, rsv, "Ping", m, <<>>) : rsv \in {1, 2}}
    \cup
    {WireFrame(TRUE, 0, "Text", m, Zeros(126))}
    \cup
    {WireFrame(TRUE, 0, op, ~m, <<65>>) : op \in {"Text", "Ping"}}

\* the frames a peer may send before the handshake is over
EarlyFrames(m) ==
    {WireFrame(TRUE, 0, op, m, <<65>>) : op \in {"Text", "Ping"}}

\* requests, responses, and a request that is no GET
WireHandshakes ==
    {RequestBytes(h) : h \in {{}, {"xf"}}}
    \cup {ResponseBytes(h) : h \in {{}, {"xf"}}}
    \cup {<<80, 48>> \o CRLFCRLF}

\* the envelopes the application hands to encode
BaseMsg(fin, rsv, op, app) ==
    set_base(WebSocket_default, Frame(fin, rsv, op, FALSE, <<>>, app))

FewBaseMsgs ==
    {BaseMsg(TRUE, 0, op, app) : op \in {"Text", "Ping"}, app \in {<<65>>, <<195>>}}

HandshakeMsgs ==
    {set_server_handshake(WebSocket_default, Handshake(h)) : h \in SUBSET ExtNames}
    \cup {set_client_handshake(WebSocket_default, Handshake(h)) : h \in {{}, {"xf"}}}
    \cup {WebSocket_default}

PmChains == {[i \in 1..Len(q) |-> Ext(q[i])] : q \in SeqsUpTo(ExtNames, MaxExts)}
PfChains == {<<Ext("strict")>>}

(***************************************************************************)
(* The state: the fields of Twist, the extension chains registered under   *)
(* its uuid, the transport (bytes on their way, bytes in the read buffer)  *)
(* a record of the last call, and whether a server handshake response was  *)
(* ever written.                                                           *)
(***************************************************************************)
VARIABLES client, shaken, frame_codec, client_handshake_codec,
          server_handshake_codec, origin, reserved_bits,
          permessage_extensions, perframe_extensions,
          wire, buf, sent, last, responded

\* The extension map the sessions of a process share, behind its mutex:
\* who holds the mutex and whether a holder panicked (poisoned), and where
\* each session is in a chain pass.
VARIABLES mutex, pass

lock_vars == <<mutex, pass>>

\* the sessions that share the map
Sessions == {"s1", "s2"}

\* the number of extensions registered under a session's uuid
MaxChain == 2

Mutex_new == [holder |-> None, poisoned |-> FALSE]
NoPass == [kind |-> "", pc |-> "idle", i |-> 0, recovered |-> FALSE]

twist == <<client, shaken, frame_codec, client_handshake_codec,
           server_handshake_codec, origin, reserved_bits>>
vars == <<client, shaken, frame_codec, client_handshake_codec,
          server_handshake_codec, origin, reserved_bits,
          permessage_extensions, perframe_extensions, wire, buf, sent, last,
          responded, mutex, pass>>

Self ==
    [client |-> client, shaken |-> shaken, frame_codec |-> frame_codec,
     client_handshake_codec |-> client_handshake_codec,
     server_handshake_codec |-> server_handshake_codec,
     origin |-> origin, reserved_bits |-> reserved_bits]

SetSelf(s) ==
    /\ client' = s.client
    /\ shaken' = s.shaken
    /\ frame_codec' = s.frame_codec
    /\ client_handshake_codec' = s.client_handshake_codec
    /\ server_handshake_codec' = s.server_handshake_codec
    /\ origin' = s.origin
    /\ reserved_bits' = s.reserved_bits

\* no call whose result the caller still holds
NoCall(s) ==
    [op |-> "none", tag |-> "", err |-> "", env |-> None, msg |-> WebSocket_default,
     pre |-> s, pm |-> <<>>, buf_before |-> <<>>, buf_after |-> <<>>,
     out_before |-> <<>>, out_after |-> <<>>]

Init ==
    /\ client \in BOOLEAN
    /\ shaken = Twist_new(client).shaken
    /\ frame_codec = Twist_new(client).frame_codec
    /\ client_handshake_codec = Twist_new(client).client_handshake_codec
    /\ server_handshake_codec = Twist_new(client).server_handshake_codec
    /\ origin = Twist_new(client).origin
    /\ reserved_bits = Twist_new(client).reserved_bits
    /\ permessage_extensions \in PmChains
    /\ perframe_extensions \in PfChains
    /\ wire = <<>>
    /\ buf = <<>>
    /\ sent = <<>>
    /\ last = NoCall(Twist_new(client))
    /\ responded = FALSE
    /\ mutex = Mutex_new
    /\ pass = [s \in Sessions |-> NoPass]

\* what the peer may send next: any frame or handshake to an open session,
\* handshakes and an early frame to a session that is not open yet, and a
\* last short frame to a session that kept the codec of a failed call
SendChoice(s) ==
    IF ~s.shaken THEN EarlyFrames(~s.client) \cup WireHandshakes
    ELSE IF s.frame_codec = None THEN WireFrames(~s.client) \cup WireHandshakes
    ELSE EarlyFrames(~s.client)

\* the peer sends a handshake or a frame
Send ==
    /\ last.op = "none"
    /\ wire = <<>>
    /\ buf = <<>>
    /\ \E m \in SendChoice(Self) :
          /\ wire' = m
          /\ sent' = m
    /\ last' = NoCall(Self)
    /\ UNCHANGED <<twist, permessage_extensions, perframe_extensions, buf, responded>>
    /\ UNCHANGED lock_vars

\* the transport reads into the buffer: a message comes in one piece or in
\* two, split at any index
Arrive ==
    /\ wire # <<>>
    /\ \E k \in 1..Len(wire) :
          /\ wire = sent \/ k = Len(wire)
          /\ buf' = buf \o Take(wire, k)
          /\ wire' = Drop(wire, k)
    /\ last' = NoCall(Self)
    /\ UNCHANGED <<twist, permessage_extensions, perframe_extensions, sent, responded>>
    /\ UNCHANGED lock_vars

\* the transport calls decode on the read buffer
Decode ==
    \E r \in {Twist_decode(Self, permessage_extensions, buf)} :
    /\ SetSelf(r.self)
    /\ buf' = r.buf
    /\ last' = [op |-> "decode", tag |-> r.tag, err |-> r.err, env |-> r.env,
                msg |-> WebSocket_default, pre |-> Self, pm |-> permessage_extensions,
                buf_before |-> buf, buf_after |-> r.buf,
                out_before |-> <<>>, out_after |-> <<>>]
    /\ UNCHANGED <<permessage_extensions, perframe_extensions, wire, sent, responded>>
    /\ UNCHANGED lock_vars

EncodeCall(msg, key, o) ==
    \E r \in {Twist_encode(Self, permessage_extensions, perframe_extensions, msg, o, key)} :
    /\ SetSelf(r.self)
    /\ permessage_extensions' = r.pm
    /\ perframe_extensions' = r.pf
    /\ last' = [op |-> "encode", tag |-> r.tag, err |-> r.err, env |-> None,
                msg |-> msg, pre |-> Self, pm |-> permessage_extensions,
                buf_before |-> buf, buf_after |-> buf,
                out_before |-> o, out_after |-> r.out]
    /\ responded' = (responded \/ (r.tag = "ok" /\ EncodeBranch(Self, msg) = "server_handshake"))
    /\ UNCHANGED <<wire, buf, sent>>
    /\ UNCHANGED lock_vars

\* the application encodes between two incoming messages: a handshake
\* envelope
EncodeHandshake ==
    /\ last.op = "none"
    /\ wire = <<>>
    /\ buf = <<>>
    /\ \E msg \in HandshakeMsgs : EncodeCall(msg, WireKey, OutBuf)

\* or a base frame
EncodeBase ==
    /\ last.op = "none"
    /\ wire = <<>>
    /\ buf = <<>>
    /\ \E msg \in FewBaseMsgs, key \in MaskKeys : EncodeCall(msg, key, OutBuf)

\* the caller is done with the result of the last call
Return ==
    /\ last.op # "none"
    /\ last' = NoCall(Self)
    /\ UNCHANGED <<twist, permessage_extensions, perframe_extensions, wire, buf, sent,
                   responded>>
    /\ UNCHANGED lock_vars

Next == Send \/ Arrive \/ Decode \/ EncodeHandshake \/ EncodeBase \/ Return

Spec == Init /\ [][Next]_vars

(***************************************************************************)
(* The encode side: the peer sends handshakes only, and the application    *)
(* encodes the base frames of the encode test, in the three length forms.  *)
(***************************************************************************)
TestBaseMsgs ==
    {BaseMsg(fin, 0, op, app) :
        fin \in BOOLEAN, op \in DataOps, app \in Payloads \cup {Zeros(1)}}
    \cup
    {BaseMsg(TRUE, 0, op, Zeros(1)) : op \in {"Ping", "Pong"}}
    \cup
    {BaseMsg(op # "Continue", 0, op, Zeros(126)) : op \in DataOps}

SendHandshake ==
    /\ last.op = "none"
    /\ wire = <<>>
    /\ buf = <<>>
    /\ \E m \in WireHandshakes :
          /\ wire' = m
          /\ sent' = m
    /\ last' = NoCall(Self)
    /\ UNCHANGED <<twist, permessage_extensions, perframe_extensions, buf, responded>>
    /\ UNCHANGED lock_vars

EncodeTest ==
    /\ last.op = "none"
    /\ wire = <<>>
    /\ buf = <<>>
    /\ \E msg \in TestBaseMsgs, key \in MaskKeys : EncodeCall(msg, key, OutBuf)

NextEncode ==
    SendHandshake \/ Arrive \/ Decode \/ EncodeHandshake \/ EncodeTest \/ Return

SpecEncode == Init /\ [][NextEncode]_vars

(***************************************************************************)
(* The extension chain: a server session with no per-frame extension, so   *)
(* that every subset of its chain can be negotiated; the peer's messages   *)
(* arrive in one piece.                                                    *)
(***************************************************************************)
InitChain ==
    /\ client = FALSE
    /\ shaken = Twist_new(FALSE).shaken
    /\ frame_codec = Twist_new(FALSE).frame_codec
    /\ client_handshake_codec = Twist_new(FALSE).client_handshake_codec
    /\ server_handshake_codec = Twist_new(FALSE).server_handshake_codec
    /\ origin = Twist_new(FALSE).origin
    /\ reserved_bits = Twist_new(FALSE).reserved_bits
    /\ permessage_extensions \in PmChains
    /\ perframe_extensions = <<>>
    /\ wire = <<>>
    /\ buf = <<>>
    /\ sent = <<>>
    /\ last = NoCall(Twist_new(FALSE))
    /\ responded = FALSE
    /\ mutex = Mutex_new
    /\ pass = [s \in Sessions |-> NoPass]

\* a message of the peer is read into the buffer
Deliver ==
    /\ last.op = "none"
    /\ wire = <<>>
    /\ buf = <<>>
    /\ \E m \in SendChoice(Self) :
          /\ buf' = m
          /\ sent' = m
    /\ last' = NoCall(Self)
    /\ UNCHANGED <<twist, permessage_extensions, perframe_extensions, wire, responded>>
    /\ UNCHANGED lock_vars

NextChain == Deliver \/ Decode \/ EncodeHandshake \/ EncodeBase \/ Return

SpecChain == InitChain /\ [][NextChain]_vars

(***************************************************************************)
(* The chain passes of several sessions on one extension map.  A pass      *)
(* (ext_chain_decode, the chain loop of encode, the negotiation loop of    *)
(* encode) locks the map, looks up the chain of its uuid and calls the     *)
(* extensions one after the other; the guard lives to the end of the       *)
(* block.  An extension call returns, fails, or panics; a panic unwinds    *)
(* through the guard, which poisons the mutex as it is dropped.            *)
(***************************************************************************)
codec_vars ==
    <<client, shaken, frame_codec, client_handshake_codec, server_handshake_codec,
      origin, reserved_bits, permessage_extensions, perframe_extensions,
      wire, buf, sent, last, responded>>

PassKinds == {"decode", "encode", "negotiate"}

\* variant: a poisoned lock is an error of the pass
OnLock_failOnPoison(poisoned) == IF poisoned THEN "failed" ELSE "chain"

\* match pm_lock.lock() { Ok(guard) => guard, Err(poisoned) => poisoned.into_inner() }
OnLock(poisoned) == "chain"

\* variant: the guard is a temporary of the lookup statement
GuardScope_statement(kind) == "statement"

\* let mut map = ...: the guard lives to the end of the block of the pass
GuardScope(kind) == "block"

InitLock ==
    /\ client = FALSE
    /\ shaken = Twist_new(FALSE).shaken
    /\ frame_codec = Twist_new(FALSE).frame_codec
    /\ client_handshake_codec = Twist_new(FALSE).client_handshake_codec
    /\ server_handshake_codec = Twist_new(FALSE).server_handshake_codec
    /\ origin = Twist_new(FALSE).origin
    /\ reserved_bits = Twist_new(FALSE).reserved_bits
    /\ permessage_extensions = <<>>
    /\ perframe_extensions = <<>>
    /\ wire = <<>>
    /\ buf = <<>>
    /\ sent = <<>>
    /\ last = NoCall(Twist_new(FALSE))
    /\ responded = FALSE
    /\ mutex = Mutex_new
    /\ pass = [s \in Sessions |-> NoPass]

\* a session enters decode or encode and reaches a chain pass
StartPass(s) ==
    /\ pass[s].pc = "idle"
    /\ \E k \in PassKinds :
          pass' = [pass EXCEPT ![s] = [kind |-> k, pc |-> "lock", i |-> 0,
                                       recovered |-> FALSE]]
    /\ UNCHANGED <<mutex, codec_vars>>

\* pm_lock.lock() returns when no other thread holds the mutex; then
\* map.entry(self.uuid).or_insert_with(Vec::new)
Lock(s) ==
    /\ pass[s].pc = "lock"
    /\ mutex.holder = None
    /\ IF OnLock(mutex.poisoned) = "chain"
       THEN /\ pass' = [pass EXCEPT ![s].pc = "chain", ![s].i = 1,
                                    ![s].recovered = mutex.poisoned]
            /\ mutex' = IF GuardScope(pass[s].kind) = "block"
                        THEN [mutex EXCEPT !.holder = Some(s)]
                        ELSE mutex
       ELSE /\ pass' = [pass EXCEPT ![s].pc = "failed"]
            /\ UNCHANGED mutex
    /\ UNCHANGED codec_vars

\* the guard of s is dropped
Unlocked(s, panicking) ==
    IF mutex.holder = Some(s)
    THEN [holder |-> None, poisoned |-> mutex.poisoned \/ panicking]
    ELSE mutex

\* one extension call of the loop returns Ok
CallOk(s) ==
    /\ pass[s].pc = "chain"
    /\ pass[s].i <= MaxChain
    /\ pass' = [pass EXCEPT ![s].i = @ + 1]
    /\ UNCHANGED <<mutex, codec_vars>>

\* one extension call returns Err: the pass returns it with `?`
CallErr(s) ==
    /\ pass[s].pc = "chain"
    /\ pass[s].i <= MaxChain
    /\ pass' = [pass EXCEPT ![s] = NoPass]
    /\ mutex' = Unlocked(s, FALSE)
    /\ UNCHANGED codec_vars

\* one extension call panics: the thread of the session is gone
CallPanic(s) ==
    /\ pass[s].pc = "chain"
    /\ pass[s].i <= MaxChain
    /\ pass' = [pass EXCEPT ![s].pc = "panicked"]
    /\ mutex' = Unlocked(s, TRUE)
    /\ UNCHANGED codec_vars

\* the loop is over and the block ends
EndPass(s) ==
    /\ pass[s].pc = "chain"
    /\ pass[s].i > MaxChain
    /\ pass' = [pass EXCEPT ![s] = NoPass]
    /\ mutex' = Unlocked(s, FALSE)
    /\ UNCHANGED codec_vars

NextLock ==
    \E s \in Sessions :
        StartPass(s) \/ Lock(s) \/ CallOk(s) \/ CallErr(s) \/ CallPanic(s) \/ EndPass(s)

SpecLock == InitLock /\ [][NextLock]_vars

(***************************************************************************)
(* The claims.  `last` describes the call that was just made: its inputs   *)
(* (pre, pm, msg, buf_before, out_before) and its result; the fields of    *)
(* the session are those the call left.                                    *)
(***************************************************************************)
IsDecode == last.op = "decode"
IsEncode == last.op = "encode"
Pre == last.pre
Emitted == last.tag = "some"

\* a base frame came out of decode / went through encode
BaseDecoded == IsDecode /\ Emitted /\ last.env[1].base # None
BaseEncoded == IsEncode /\ last.tag = "ok" /\ last.msg.base # None

\* what the frame codec and the chain made of the buffer of the last call
ParsedOf(l) ==
    FrameCodec_decode(
        set_reserved_bits(set_client(SlotOr(l.pre.frame_codec, FrameCodec_default),
                                     l.pre.client), l.pre.reserved_bits),
        l.buf_before)
ChainedOf(l) == ext_chain_decode(l.pm, ParsedOf(l).frame)

\* C1: a server session emits the client's request without setting shaken;
\* shaken is set by the successful encode of the server handshake and by
\* nothing else; and no base frame is decoded or encoded by a server session
\* that has not encoded its handshake response.
C1_ServerShakenOnEncode ==
    ~client =>
        /\ (IsDecode /\ ~Pre.shaken /\ Emitted =>
                /\ last.env[1].server_handshake # None
                /\ last.env[1].base = None
                /\ ~shaken)
        /\ (last.op # "none" /\ ~Pre.shaken /\ shaken =>
                IsEncode /\ last.tag = "ok" /\ last.msg.server_handshake # None)
        /\ (shaken => responded)
        /\ (BaseDecoded \/ BaseEncoded => responded /\ Pre.shaken)

\* a server that decoded the request and then encoded its response
C1_Witness ==
    /\ ~client /\ IsEncode /\ last.tag = "ok"
    /\ ~Pre.shaken /\ shaken /\ Pre.origin # None

\* C2: a client session stays unshaken when it encodes its handshake
\* request, and becomes shaken exactly in the decode call that emits the
\* handshake frame read from the server's response.
C2_ClientShakenOnDecode ==
    client =>
        /\ (IsEncode /\ ~Pre.shaken /\ last.msg.client_handshake # None
                     /\ last.msg.server_handshake = None =>
                /\ last.tag = "ok"
                /\ ~shaken
                /\ last.out_after # last.out_before)
        /\ (IsDecode /\ ~Pre.shaken =>
                /\ (shaken <=> Emitted)
                /\ (Emitted => last.env[1].client_handshake # None
                               /\ last.env[1].base = None))

C2_Witness ==
    client /\ IsDecode /\ ~Pre.shaken /\ Emitted /\ shaken

\* C3 (as claimed): a call that follows a call that returned an error
\* returns that same error if it is a decode.
C3_ErrorsAreSticky ==
    [][(last.tag = "err" /\ last'.op = "decode") =>
            (last'.tag = "err" /\ last'.err = last.err)]_vars

\* the envelope does not fit the state and role of the session
Mismatched(s, msg) ==
    \/ msg.base # None /\ ~s.shaken
    \/ (msg.server_handshake # None \/ msg.client_handshake # None) /\ s.shaken
    \/ msg.server_handshake # None /\ s.client
    \/ msg.client_handshake # None /\ ~s.client

\* C4 (as claimed): encode rejects a mismatched envelope: it returns an
\* error, writes nothing, and leaves shaken and reserved_bits alone.
C4_EncodeRejectsMismatch ==
    IsEncode /\ Mismatched(Pre, last.msg) =>
        /\ last.tag = "err"
        /\ last.out_after = last.out_before
        /\ shaken = Pre.shaken
        /\ reserved_bits = Pre.reserved_bits

\* the message in flight, decoded in one call by a session with an empty slot
OneCall(l) == Twist_decode([l.pre EXCEPT !.frame_codec = None], l.pm, sent)

\* the slot of the last call held no finished parse
SlotInProgress(l) ==
    l.pre.frame_codec = None \/ l.pre.frame_codec[1].state # "FULL"

\* C5: when the bytes of a frame reach an open session in two pieces, the
\* call on the first piece returns None, consumes nothing and keeps the
\* frame codec in its slot, and the call on the whole emits the envelope
\* that one call on the whole frame emits, and leaves the buffer empty.
C5_SplitDecode ==
    (IsDecode /\ Pre.shaken /\ SlotInProgress(last) /\ last.buf_before # <<>>
              /\ OneCall(last).tag = "some") =>
        IF last.buf_before = sent
        THEN Emitted /\ last.env = OneCall(last).env /\ buf = <<>>
                     /\ frame_codec = None
        ELSE last.tag = "none" /\ buf = last.buf_before /\ frame_codec # None

\* a frame emitted by a call that resumed a kept frame codec
C5_Witness ==
    /\ BaseDecoded /\ Pre.frame_codec # None
    /\ Pre.frame_codec[1].state = "MASK"
    /\ buf = <<>> /\ last.buf_before = sent

\* C6 (as claimed): only a call that emits an envelope removes bytes.
C6_ConsumeOnlyOnEmit ==
    IsDecode /\ ~Emitted => buf = last.buf_before

\* C7: an open session emits no final text frame whose application data is
\* not UTF-8; when the data the chain leaves is not UTF-8, a final text
\* frame is an error without envelope, and a binary frame or a text frame
\* that is not final is emitted as the chain left it.
C7_Utf8Gate ==
    /\ (BaseDecoded /\ last.env[1].base[1].opcode = "Text" /\ last.env[1].base[1].fin =>
            ValidUtf8(AppData(last.env[1].base[1])))
    /\ (IsDecode /\ Pre.shaken /\ last.buf_before # <<>>
            /\ ParsedOf(last).tag = "frame" /\ ChainedOf(last).ok
            /\ ~ValidUtf8(AppData(ChainedOf(last).frame)) =>
            IF ChainedOf(last).frame.opcode = "Text" /\ ChainedOf(last).frame.fin
            THEN /\ last.tag = "err"
                 /\ last.err = "invalid UTF-8 in text frame"
                 /\ last.env = None
            ELSE /\ Emitted
                 /\ last.env[1].base = Some(ChainedOf(last).frame))

\* a final text frame refused for its payload
C7_Witness ==
    /\ IsDecode /\ Pre.shaken /\ last.tag = "err"
    /\ last.err = "invalid UTF-8 in text frame"
    /\ ParsedOf(last).frame.opcode = "Text"

\* the RSV bits in the first byte of a frame
HeaderRsv(b) == (b[1] \div 16) % 8

\* C8: an open session emits a base frame only if each of its RSV bits is
\* in reserved_bits, and a frame whose prefix has an RSV bit that is not in
\* reserved_bits is refused.
C8_RsvDiscipline ==
    /\ (BaseDecoded => RsvCovered(last.env[1].base[1].rsv, reserved_bits))
    /\ (BaseDecoded /\ reserved_bits = 0 =>
            ~rsv1(last.env[1].base[1]) /\ ~rsv2(last.env[1].base[1])
                                       /\ ~rsv3(last.env[1].base[1]))
    /\ (IsDecode /\ Pre.shaken /\ Len(last.buf_before) >= 2
            /\ (Pre.frame_codec = None \/ Pre.frame_codec[1].state = "NONE")
            /\ ~RsvCovered(HeaderRsv(last.buf_before), Pre.reserved_bits) =>
            last.tag = "err" /\ last.env = None)

\* a frame refused for RSV2 by a session whose extension reserved RSV1
C8_Witness ==
    /\ IsDecode /\ Pre.shaken /\ reserved_bits = 4
    /\ last.tag = "err" /\ last.err = "protocol error: reserved bit set"
    /\ HeaderRsv(last.buf_before) = 2

\* the length of the masked wire form of a frame with n payload bytes (the
\* vectors of the encode test: 7 for 1, 134 for 126, 65550 for 65536)
MaskedLen(n) == IF n < 126 THEN n + 6 ELSE IF n < 65536 THEN n + 8 ELSE n + 14

Written == Drop(last.out_after, Len(last.out_before))

\* the frame of 65536 payload bytes, encoded by an open session of a role
LongWritten(c) ==
    Twist_encode([Twist_new(c) EXCEPT !.shaken = TRUE], <<>>, <<>>,
                 BaseMsg(TRUE, 0, "Text", Zeros(65536)), <<>>, WireKey).out

\* the 8-byte length form: the server's frame is 4 bytes shorter than the
\* masked wire form, the client's has the mask bit
LongFormOk ==
    /\ Len(LongWritten(FALSE)) = MaskedLen(65536) - 4
    /\ LongWritten(FALSE)[2] = 127
    /\ Len(LongWritten(TRUE)) = MaskedLen(65536)
    /\ LongWritten(TRUE)[2] = 255

\* C9: an open server session writes every base frame unmasked, 4 bytes
\* shorter than its masked wire form; an open client session writes it
\* masked, with the mask key it drew.
C9_MaskingOnEncode ==
    /\ (BaseEncoded /\ Pre.shaken =>
            LET n == Len(AppData(last.msg.base[1])) IN
            IF client
            THEN Len(Written) = MaskedLen(n) /\ Written[2] >= 128
            ELSE Len(Written) = MaskedLen(n) - 4 /\ Written[2] < 128)
    /\ LongFormOk

\* a server that encoded a frame in the 2-byte length form
C9_Witness ==
    /\ BaseEncoded /\ Pre.shaken /\ ~client
    /\ Len(AppData(last.msg.base[1])) = 126
    /\ last.msg.base[1].opcode = "Text"

\* C10: shaken is false at construction and, once true, stays true through
\* every call; client never changes.
C10_ShakenMonotonic ==
    /\ ~shaken
    /\ [][(shaken => shaken') /\ client' = client]_vars

\* an open session after a call that failed
C10_Witness ==
    shaken /\ Pre.shaken /\ IsDecode /\ last.tag = "err"

InChain(s) == pass[s].pc = "chain"

\* C12: a session inside a chain pass holds the mutex of the map, so no two
\* sessions are inside a pass at once; and no pass fails at the lock, the
\* mutex poisoned or not.
C12_ChainUnderLock ==
    /\ \A s \in Sessions : InChain(s) => mutex.holder = Some(s)
    /\ \A s, t \in Sessions : InChain(s) /\ InChain(t) => s = t
    /\ \A s \in Sessions : pass[s].pc # "failed"

\* a pass at its second extension, on a map whose mutex the other session
\* poisoned when it panicked
C12_Witness ==
    \E s, t \in Sessions :
        /\ InChain(s) /\ pass[s].recovered /\ pass[s].i = 2 /\ mutex.poisoned
        /\ pass[t].pc = "panicked"

\* C13: when the frame codec produced a frame that is not a final Text or
\* Binary frame, the call emits that frame as it is and fails in no
\* extension, whatever extensions are enabled.
C13_DecodeGate ==
    (IsDecode /\ Pre.shaken /\ last.buf_before # <<>>
              /\ ParsedOf(last).tag = "frame"
              /\ (~ParsedOf(last).frame.fin
                    \/ ParsedOf(last).frame.opcode \notin {"Text", "Binary"})) =>
        /\ Emitted
        /\ last.env[1].base = Some(ParsedOf(last).frame)
        /\ permessage_extensions = last.pm

\* a Text frame that is not final, with RSV1 and a payload that both
\* enabled extensions would act on, emitted as read
C13_Witness ==
    /\ BaseDecoded /\ reserved_bits = 6
    /\ \A i \in 1..Len(last.pm) : last.pm[i].enabled
    /\ ~last.env[1].base[1].fin /\ last.env[1].base[1].opcode = "Text"
    /\ rsv1(last.env[1].base[1])
    /\ AppData(last.env[1].base[1]) = <<195>>

\* C14 (as claimed): an outgoing frame that is not a final Text or Binary
\* frame is written as the application gave it: no extension changes or
\* refuses it.
C14_EncodeGate ==
    (IsEncode /\ Pre.shaken /\ last.msg.base # None
              /\ (~last.msg.base[1].fin
                    \/ last.msg.base[1].opcode \notin {"Text", "Binary"})) =>
        /\ last.tag = "ok"
        /\ HeaderRsv(Written) = last.msg.base[1].rsv
        /\ (~client => Written = FrameCodec_encode(set_client(FrameCodec_default, FALSE),
                                                   last.msg.base[1], WireKey))

\* the negotiation of the last call, as the loop of encode runs it
NegotiatedOf(l) ==
    NegotiateFrom(l.pm, 1, l.msg.server_handshake[1].extensions,
                  l.pre.reserved_bits, {})

\* C15 (as claimed): when reserve_rsv of an enabled extension fails during
\* the encode of the server handshake, the response is still written, the
\* session becomes open, and the extension is disabled.
C15_CollisionTolerated ==
    (IsEncode /\ EncodeBranch(Pre, last.msg) = "server_handshake"
              /\ ~NegotiatedOf(last).ok
              /\ NegotiatedOf(last).err = "extension error: rsv bit taken") =>
        /\ last.tag = "ok"
        /\ shaken
        /\ Written # <<>>
        /\ \E i \in 1..Len(permessage_extensions) :
              /\ permessage_extensions[i].kind \in last.msg.server_handshake[1].extensions
              /\ ~permessage_extensions[i].enabled

\* C16 (as claimed): when a client session emits the server's handshake
\* response, every extension of its chain that the response accepts is
\* enabled and has its bit in reserved_bits, and the others are disabled.
C16_ClientNegotiated ==
    (client /\ IsDecode /\ ~Pre.shaken /\ Emitted) =>
        LET accepted == last.env[1].client_handshake[1].extensions IN
        \A i \in 1..Len(permessage_extensions) :
            LET e == permessage_extensions[i] IN
            IF e.kind \in accepted
            THEN e.enabled /\ Bit(reserved_bits, RsvOf(e.kind))
            ELSE ~e.enabled

\* C17: a chain error is the error of the call, whatever the payload; when
\* the chain succeeds, a final Text frame is emitted exactly if the payload
\* the chain left is UTF-8, and what is emitted is the frame the chain left.
C17_DecodeOrder ==
    (IsDecode /\ Pre.shaken /\ last.buf_before # <<>>
              /\ ParsedOf(last).tag = "frame") =>
        IF ~ChainedOf(last).ok
        THEN last.tag = "err" /\ last.err = ChainedOf(last).err
        ELSE LET f == ChainedOf(last).frame IN
             /\ (f.opcode = "Text" /\ f.fin =>
                    (Emitted <=> ValidUtf8(AppData(f))))
             /\ (Emitted => last.env[1].base = Some(f))

\* a final Text frame whose wire payload is not UTF-8, emitted with the
\* payload the chain made of it
C17_Witness ==
    /\ BaseDecoded /\ Pre.shaken
    /\ last.env[1].base[1].opcode = "Text" /\ last.env[1].base[1].fin
    /\ ~ValidUtf8(AppData(ParsedOf(last).frame))
    /\ ValidUtf8(AppData(last.env[1].base[1]))

\* the enabled extensions of a chain, in registration order
EnabledOf(pm) == SelectSeq(pm, LAMBDA e : e.enabled)

\* the extensions es applied to f one after the other, first to last, up to
\* the first that fails
RECURSIVE InOrder(_, _, _)
InOrder(es, f, dir) ==
    IF es = <<>> THEN [ok |-> TRUE, frame |-> f, err |-> ""]
    ELSE LET r == IF dir = "decode" THEN Ext_decode(Head(es), f)
                  ELSE Ext_encode(Head(es), f)
         IN  IF r.ok THEN InOrder(Tail(es), r.frame, dir) ELSE r

\* C18: the decode-pass and the encode-pass apply the enabled extensions of
\* the session's chain in registration order: the first error is the error
\* of the call, and without an error the frame emitted or written is the
\* one the extensions made in that order.
C18_ChainOrder ==
    /\ (IsDecode /\ Pre.shaken /\ last.buf_before # <<>>
            /\ ParsedOf(last).tag = "frame"
            /\ ParsedOf(last).frame.fin
            /\ ParsedOf(last).frame.opcode \in {"Text", "Binary"}) =>
            LET r == InOrder(EnabledOf(last.pm), ParsedOf(last).frame, "decode") IN
            IF ~r.ok THEN last.tag = "err" /\ last.err = r.err
            ELSE /\ (Emitted => last.env[1].base = Some(r.frame))
                 /\ (~Emitted => last.tag = "err"
                                 /\ last.err = "invalid UTF-8 in text frame")
    /\ (IsEncode /\ Pre.shaken /\ last.msg.base # None) =>
            LET r == InOrder(EnabledOf(last.pm), last.msg.base[1], "encode") IN
            IF ~r.ok
            THEN last.tag = "err" /\ last.err = r.err /\ Written = <<>>
            ELSE /\ last.tag = "ok"
                 /\ (~client => Written =
                        FrameCodec_encode(set_client(FrameCodec_default, FALSE),
                                          r.frame, WireKey))

\* a frame that passes the chain [xf, chk] and would fail in [chk, xf]:
\* xf rewrites the payload that chk refuses
C18_Witness ==
    /\ BaseDecoded
    /\ Len(last.pm) = 2
    /\ last.pm[1].kind = "xf" /\ last.pm[1].enabled
    /\ last.pm[2].kind = "chk" /\ last.pm[2].enabled
    /\ rsv1(ParsedOf(last).frame)
    /\ AppData(ParsedOf(last).frame) = <<195>>
    /\ ParsedOf(last).frame.fin

\* the slot of the mode the session was in at the last call
ModeSlot(l) ==
    IF l.pre.shaken THEN frame_codec
    ELSE IF l.pre.client THEN client_handshake_codec
    ELSE server_handshake_codec

\* C19 (as claimed): after a decode call on a buffer with bytes, the slot
\* of the mode is present exactly if the call returned None; after a call
\* that emitted, the three slots are empty; after a call that failed, the
\* frame codec slot holds no codec that has completed its frame.
C19_SlotInvariant ==
    /\ (IsDecode /\ last.buf_before # <<>> =>
            (ModeSlot(last) # None <=> last.tag = "none"))
    /\ (IsDecode /\ Emitted =>
            /\ frame_codec = None
            /\ client_handshake_codec = None
            /\ server_handshake_codec = None)
    /\ (IsDecode /\ last.tag = "err" =>
            frame_codec = None \/ frame_codec[1].state # "FULL")

\* C20: a decode call on an empty buffer returns None and leaves the
\* session, its slots, the buffer and the extensions as they were.
C20_EmptyBuffer ==
    (IsDecode /\ last.buf_before = <<>>) =>
        /\ last.tag = "none"
        /\ last.env = None
        /\ Self = Pre
        /\ buf = <<>>
        /\ permessage_extensions = last.pm

\* a call on an empty buffer by an open session that holds a frame codec
C20_Witness ==
    /\ IsDecode /\ last.buf_before = <<>> /\ last.tag = "none"
    /\ Pre.shaken /\ Pre.frame_codec # None

====
